---- MODULE Spec2Model ----
(***************************************************************************)
(* Conflict formset views of tabbycat/adjallocation/views.py.              *)
(*                                                                         *)
(* One conflict view class (one of the four) serves one tournament.  The   *)
(* conflict table of the view's model is the persistent state; request,    *)
(* formset, response and before (the table as the request found it)        *)
(* describe the request being answered.                                    *)
(*                                                                         *)
(* Spec       the view under GETs of any user and POSTs of users who hold  *)
(*            the edit permission, one request at a time: a request is     *)
(*            handled in one step (Get, Post) and its response is then     *)
(*            delivered (Respond)                                          *)
(* SpecDenied the view under POSTs of users who lack the edit permission,  *)
(*            one request at a time                                        *)
(* SpecIter   one choice field, its options iterated again and again       *)
(* SpecConc   two administrators who load the page and submit edits, the   *)
(*            reads and writes of their requests interleaved               *)
(*                                                                         *)
(* The views call super().get_formset() of ModelFormSetView, whose code is *)
(* not among the sources.  On a GET it renders the rows of                 *)
(* get_formset_queryset().  Whether it also hands that queryset to the     *)
(* formset it binds to POST data is not known: queryset_on_post holds the  *)
(* answer, it is either one from the start and never changes.              *)
(***************************************************************************)
EXTENDS Integers, Sequences, FiniteSets, TLC

VARIABLES view, tournament, queryset_on_post, db, nextpk, pc, request, formset, response, before,
          loaded, inflight, log, field, iterations, yielded

vars == <<view, tournament, queryset_on_post, db, nextpk, pc, request, formset, response, before,
          loaded, inflight, log, field, iterations, yielded>>

----------------------------------------------------------------------------
(* Bounds of the model *)

\* largest primary key the conflict table hands out
MaxPk == 3
\* largest number of forms in one POST payload
MaxForms == 2
\* largest number of iterations over one field's options
MaxIter == 3
\* largest number of rows in a queryset handed to a choice field
MaxQs == 2
\* largest number of submissions of the two administrators
MaxSubmits == 2

----------------------------------------------------------------------------
(* Values *)

\* Python's None, for a primary key or a foreign key that is not set
None == 0
\* Python's None, for an empty_label that is not set; a label is, like a
\* name, the rank of its text in collation order
NoLabel == -1
\* ModelChoiceField's default empty_label, "---------"
EmptyLabel == 0
\* the AttributeError a read of an attribute that was never assigned raises
AttributeError == -2
\* str(obj), the label of an option that is not a team
str(model, pk) == IF model = "Adjudicator" THEN 20 + pk ELSE 30 + pk

Max(S) == CHOOSE m \in S : \A k \in S : k <= m

----------------------------------------------------------------------------
(* The four view classes and their class attributes *)

Views == {"AdjudicatorTeamConflictsView", "AdjudicatorAdjudicatorConflictsView",
          "AdjudicatorInstitutionConflictsView", "TeamInstitutionConflictsView"}

\* formset_factory_kwargs['fields']
fields(v) ==
    CASE v = "AdjudicatorTeamConflictsView" -> <<"adjudicator", "team">>
      [] v = "AdjudicatorAdjudicatorConflictsView" -> <<"adjudicator1", "adjudicator2">>
      [] v = "AdjudicatorInstitutionConflictsView" -> <<"adjudicator", "institution">>
      [] v = "TeamInstitutionConflictsView" -> <<"team", "institution">>

\* formset_factory_kwargs['field_classes']
field_classes(v) ==
    CASE v = "AdjudicatorTeamConflictsView" ->
            [adjudicator |-> "DedupModelChoiceField", team |-> "TeamChoiceField"]
      [] v = "AdjudicatorAdjudicatorConflictsView" ->
            [adjudicator1 |-> "DedupModelChoiceField", adjudicator2 |-> "DedupModelChoiceField"]
      [] v = "AdjudicatorInstitutionConflictsView" ->
            [adjudicator |-> "DedupModelChoiceField", institution |-> "DedupModelChoiceField"]
      [] v = "TeamInstitutionConflictsView" ->
            [team |-> "TeamChoiceField", institution |-> "DedupModelChoiceField"]

same_view(v) ==
    CASE v = "AdjudicatorTeamConflictsView" -> "adjallocation-conflicts-adj-team"
      [] v = "AdjudicatorAdjudicatorConflictsView" -> "adjallocation-conflicts-adj-adj"
      [] v = "AdjudicatorInstitutionConflictsView" -> "adjallocation-conflicts-adj-inst"
      [] v = "TeamInstitutionConflictsView" -> "adjallocation-conflicts-team-inst"

\* the model a foreign-key field of the conflict models points to
related_model(f) ==
    CASE f \in {"adjudicator", "adjudicator1", "adjudicator2"} -> "Adjudicator"
      [] f = "team" -> "Team"
      [] f = "institution" -> "Institution"

----------------------------------------------------------------------------
(* Participants: read, never written, by the views.  A name is its rank in *)
(* the database's collation order.                                         *)

Tournaments == {1, 2}

Adjudicator == {1, 2, 3}
Team == {1, 2, 3}
Institution == {1, 2}

objects(model) ==
    CASE model = "Adjudicator" -> Adjudicator
      [] model = "Team" -> Team
      [] model = "Institution" -> Institution

\* adjudicator.tournament, team.tournament
tournament_of(model, pk) ==
    CASE model = "Adjudicator" -> <<1, 1, 2>>[pk]
      [] model = "Team" -> <<1, 1, 2>>[pk]

\* adjudicator.name: primary-key order is not name order
name(adj) == <<2, 1, 3>>[adj]
\* team.short_name and team.code_name: the two orders differ
short_name(team) == <<2, 1, 3>>[team]
code_name(team) == <<11, 12, 13>>[team]

----------------------------------------------------------------------------
(* Querysets *)

Range(s) == {s[i] : i \in 1..Len(s)}

\* every sequence that lists the set S once each
Orderings(S) ==
    {s \in [1..Cardinality(S) -> S] : \A i, j \in 1..Cardinality(S) : s[i] = s[j] => i = j}

\* QuerySet.order_by(key): ascending in key, a function on the rows; the
\* database leaves the order of equal keys open, so every ascending
\* ordering is a possible result
order_by(S, key) ==
    {s \in Orderings(S) : \A i, j \in 1..Len(s) : i < j => key[s[i]] <= key[s[j]]}

\* tournament.adjudicator_set, tournament.team_set
adjudicator_set(t) == {a \in Adjudicator : tournament_of("Adjudicator", a) = t}
team_set(t) == {x \in Team : tournament_of("Team", x) = t}

\* Model.objects.all(), in the model's default order
objects_all(model) == IF model = "Institution" THEN <<1, 2>> ELSE <<1, 2, 3>>

----------------------------------------------------------------------------
(* Choice fields.  A field is a record of its attributes: its class, its   *)
(* queryset (the primary keys in order), its empty_label and disabled.  A  *)
(* field as its form class builds it has no attribute use_code_names: a    *)
(* team field has one once get_formset has assigned it.                    *)

Field(cls, model, queryset) ==
    [cls |-> cls, model |-> model, queryset |-> queryset, empty_label |-> EmptyLabel,
     disabled |-> FALSE]

\* hasattr(f, attr)
hasattr(f, attr) == attr \in DOMAIN f

\* f.attr = value, also when f had no such attribute
setattr(f, attr, value) ==
    [a \in DOMAIN f \cup {attr} |-> IF a = attr THEN value ELSE f[a]]

\* a variant of label_from_instance with the two names exchanged
label_from_instance_exchanged(f, obj) ==
    IF f.cls = "TeamChoiceField"
    THEN (IF ~hasattr(f, "use_code_names") THEN AttributeError
          ELSE IF f.use_code_names THEN short_name(obj) ELSE code_name(obj))
    ELSE str(f.model, obj)

\* TeamChoiceField.label_from_instance, which raises AttributeError on a
\* field that was never assigned use_code_names; the other fields label by
\* str(obj)
label_from_instance(f, obj) ==
    IF f.cls = "TeamChoiceField"
    THEN (IF ~hasattr(f, "use_code_names") THEN AttributeError
          ELSE IF f.use_code_names THEN code_name(obj) ELSE short_name(obj))
    ELSE str(f.model, obj)

\* ModelChoiceIterator.choice: (value, label)
choice(f, obj) == <<obj, label_from_instance(f, obj)>>

\* the options of the rows of a queryset, one after the other, up to and
\* with the first whose label raises: the exception ends the iteration
RECURSIVE choices_from(_, _)
choices_from(f, i) ==
    IF i > Len(f.queryset) THEN <<>>
    ELSE IF choice(f, f.queryset[i])[2] = AttributeError
    THEN <<choice(f, f.queryset[i])>>
    ELSE <<choice(f, f.queryset[i])>> \o choices_from(f, i + 1)

\* a variant of the iterator that yields the blank option without looking
\* at empty_label, and again when empty_label is set
DedupModelChoiceIterator_twice(f) ==
    <<<<None, f.empty_label>>>> \o
    (IF f.empty_label # NoLabel THEN <<<<None, f.empty_label>>>> ELSE <<>>) \o
    choices_from(f, 1)

\* DedupModelChoiceIterator.__iter__: the options one iteration yields; an
\* option whose label is AttributeError stands for the exception raised in
\* its place.  The value '' of the blank option is None.
DedupModelChoiceIterator(f) ==
    (IF f.empty_label # NoLabel THEN <<<<None, f.empty_label>>>> ELSE <<>>) \o
    choices_from(f, 1)

\* DedupModelChoiceField._set_queryset
set_queryset(f, queryset) == [f EXCEPT !.queryset = queryset]

----------------------------------------------------------------------------
(* Conflict rows and forms.  A row of the view's conflict model is a record *)
(* of id and the two foreign keys, named as fields(view) names them.       *)

F1(v) == fields(v)[1]
F2(v) == fields(v)[2]

Row(v, pk, x, y) ==
    [n \in {"id", F1(v), F2(v)} |-> IF n = "id" THEN pk ELSE IF n = F1(v) THEN x ELSE y]

\* the data one form of a POST carries
FormData(v, pk, x, y, delete) ==
    [n \in {"id", F1(v), F2(v), "DELETE"} |->
        IF n = "id" THEN pk ELSE IF n = F1(v) THEN x ELSE IF n = F2(v) THEN y ELSE delete]

\* the tournament a conflict row is scoped to: that of its first foreign key
row_tournament(v, row) == tournament_of(related_model(F1(v)), row[F1(v)])

\* the names of a form's fields: the primary key, the two foreign keys and,
\* with can_delete, the DELETE box
field_names(v, can_delete) ==
    {"id", F1(v), F2(v)} \cup (IF can_delete THEN {"DELETE"} ELSE {})

\* Model._default_manager.get_queryset() of the view's conflict model: every
\* row of the table, read when the queryset is evaluated
default_manager == <<"objects">>

\* a form as modelformset_factory's formset constructs it: the
\* primary-key field is over every row of the model (add_fields) and its
\* initial value is the pk of the form's instance, a foreign-key field is
\* over every object of its model
construct_form(v, kwargs, queryset, instance, is_initial, data) ==
    [instance |-> instance,
     is_initial |-> is_initial,
     initial |-> [n \in {"id", F1(v), F2(v), "DELETE"} |->
                    IF n = "DELETE" THEN FALSE
                    ELSE IF instance = None THEN None
                    ELSE (CHOOSE r \in Range(queryset) : r.id = instance)[n]],
     data |-> data,
     fields |-> [n \in field_names(v, kwargs.can_delete) |->
                    CASE n = "id" ->
                            Field("ModelChoiceField", v, default_manager)
                      [] n = "DELETE" -> Field("BooleanField", v, <<>>)
                      [] OTHER ->
                            Field(field_classes(v)[n], related_model(n),
                                  objects_all(related_model(n)))]]

\* the blank data of a form that is not bound to a POST
blank_data(v) == FormData(v, None, None, None, FALSE)

\* BaseModelFormSet._existing_object: the row of the formset's queryset a
\* submitted id names; None when it names no row of it, and the form then
\* holds a new instance, without a pk
existing_object(queryset, pk) ==
    IF \E r \in Range(queryset) : r.id = pk THEN pk ELSE None

\* ModelFormSetView.get_formset, of the view's base class: the formset class
\* of get_formset_factory_kwargs over a queryset, bound to the POST data
\* when the request is a POST.  Not bound, it holds one form per row of the
\* queryset and then kwargs.extra blank forms; bound, one form per form of
\* the payload, those that carry an id being the initial forms.
ModelFormSetView_get_formset(v, kwargs, queryset, req) ==
    [can_delete |-> kwargs.can_delete,
     extra |-> kwargs.extra,
     is_bound |-> req.method = "POST",
     queryset |-> [i \in 1..Len(queryset) |-> queryset[i].id],
     forms |->
        IF req.method = "POST"
        THEN [i \in 1..Len(req.POST) |->
                construct_form(v, kwargs, queryset,
                               existing_object(queryset, req.POST[i].id),
                               req.POST[i].id # None, req.POST[i])]
        ELSE [i \in 1..(Len(queryset) + kwargs.extra) |->
                IF i <= Len(queryset)
                THEN construct_form(v, kwargs, queryset, queryset[i].id, TRUE,
                        [n \in {"id", F1(v), F2(v), "DELETE"} |->
                            IF n = "DELETE" THEN FALSE ELSE queryset[i][n]])
                ELSE construct_form(v, kwargs, queryset, None, FALSE, blank_data(v))]]

----------------------------------------------------------------------------
(* Validation and saving of a bound formset, as the form layer does them   *)

\* BoundField value: a disabled field takes its initial value, not the data
cleaned(form, n) == IF form.fields[n].disabled THEN form.initial[n] ELSE form.data[n]

changed_data(form) == {n \in DOMAIN form.fields : cleaned(form, n) # form.initial[n]}
has_changed(form) == changed_data(form) # {}

\* BaseFormSet._should_delete_form
should_delete_form(form) == "DELETE" \in DOMAIN form.fields /\ cleaned(form, "DELETE")

\* the foreign keys of the row the form would write
cleaned_row(v, form) == <<cleaned(form, F1(v)), cleaned(form, F2(v))>>

\* whether a foreign key of a form cleans: it is required, and it is an
\* object of its field's queryset
field_is_valid(form, n) ==
    cleaned(form, n) # None /\ cleaned(form, n) \in Range(form.fields[n].queryset)

\* a form's own validation: an extra form left unchanged is skipped; the
\* primary key is required of an initial form and, when given, is that of a
\* stored row of the model; each foreign key cleans; and the pair is not
\* that of another stored row (the conflict models are unique together)
form_is_valid(v, form, table) ==
    \/ ~form.is_initial /\ ~has_changed(form)
    \/ /\ form.is_initial => cleaned(form, "id") # None
       /\ cleaned(form, "id") # None => \E r \in table : r.id = cleaned(form, "id")
       /\ \A n \in {F1(v), F2(v)} : field_is_valid(form, n)
       /\ ~\E r \in table : /\ r.id # form.instance
                            /\ <<r[F1(v)], r[F2(v)]>> = cleaned_row(v, form)

\* BaseModelFormSet.is_valid: forms marked for deletion are not validated;
\* the others are valid one by one and, among those that carry data, no two
\* share a pair of foreign keys
is_valid(v, fs, table) ==
    LET live == {i \in 1..Len(fs.forms) : ~should_delete_form(fs.forms[i])}
        filled == {i \in live : fs.forms[i].is_initial \/ has_changed(fs.forms[i])}
    IN /\ \A i \in live : form_is_valid(v, fs.forms[i], table)
       /\ \A i, j \in filled : i # j =>
            cleaned_row(v, fs.forms[i]) # cleaned_row(v, fs.forms[j])

\* form.instance once the formset is cleaned.  The forms that name one
\* stored row share one instance (_existing_object), and each form, as it
\* is cleaned, also one marked for deletion, sets on it the foreign keys of
\* its own that clean: the instance ends with what the last such form set,
\* and with what the queryset read where no form set anything.
instance_after(v, fs, form) ==
    IF ~form.is_initial \/ form.instance = None
    THEN Row(v, None, cleaned(form, F1(v)), cleaned(form, F2(v)))
    ELSE [n \in {"id", F1(v), F2(v)} |->
            IF n = "id" THEN form.instance
            ELSE LET setters == {i \in 1..Len(fs.forms) :
                                    /\ fs.forms[i].is_initial
                                    /\ fs.forms[i].instance = form.instance
                                    /\ field_is_valid(fs.forms[i], n)}
                 IN IF setters = {} THEN form.initial[n]
                    ELSE cleaned(fs.forms[Max(setters)], n)]

\* whether the table refuses a row: another row holds its pair of foreign
\* keys (unique_together), and the write raises IntegrityError
violates_unique(v, table, row) ==
    \E r \in table : r.id # row.id /\ r[F1(v)] = row[F1(v)] /\ r[F2(v)] = row[F2(v)]

RECURSIVE save_forms(_, _, _, _)
\* BaseModelFormSet.save, form by form from form i on, the initial forms
\* before the extra ones: acc holds the table, the next primary key, the
\* lists instances and deleted_objects, the rows this save has deleted
\* (their instance has no pk any more) and whether a write has raised.  An
\* initial form whose instance has no pk is passed over; one marked for
\* deletion deletes its row; one that has changed saves its instance.  An
\* extra form that has changed and is not marked for deletion creates a row.
save_forms(v, fs, i, acc) ==
    IF i > Len(fs.forms) \/ acc.raised THEN acc
    ELSE LET form == fs.forms[i]
             old == {r \in acc.db : r.id = form.instance}
             obj == instance_after(v, fs, form)
             row == [obj EXCEPT !.id = IF form.is_initial THEN form.instance
                                       ELSE acc.nextpk]
         IN save_forms(v, fs, i + 1,
              IF form.is_initial
              THEN IF form.instance = None \/ form.instance \in acc.deleted_pks THEN acc
                   ELSE IF should_delete_form(form)
                   THEN [acc EXCEPT !.db = @ \ old,
                                    !.deleted_objects = Append(@, form.instance),
                                    !.deleted_pks = @ \cup {form.instance}]
                   ELSE IF has_changed(form)
                   THEN IF violates_unique(v, acc.db, row)
                        THEN [acc EXCEPT !.raised = TRUE]
                        ELSE [acc EXCEPT !.db = (@ \ old) \cup {row},
                                         !.instances = Append(@, row)]
                   ELSE acc
              ELSE IF has_changed(form) /\ ~should_delete_form(form)
                   THEN IF violates_unique(v, acc.db, row)
                        THEN [acc EXCEPT !.raised = TRUE]
                        ELSE [acc EXCEPT !.db = @ \cup {row},
                                         !.nextpk = @ + 1,
                                         !.instances = Append(@, row)]
                   ELSE acc)

\* formset.save(): the table after it, what it saved and deleted, and
\* whether it raised
formset_save(v, fs, table, pk) ==
    save_forms(v, fs, 1,
               [db |-> table, nextpk |-> pk, instances |-> <<>>, deleted_objects |-> <<>>,
                deleted_pks |-> {}, raised |-> FALSE])

----------------------------------------------------------------------------
(* The views.  A request is a record: its method, its user, what the       *)
(* permission lookup and the code-name preference answer for that user and *)
(* tournament, whether the POST data holds the key add_more, and the forms *)
(* of the POST data.                                                       *)

\* has_permission(self.request.user, self.get_edit_permission(), self.tournament)
has_permission(req) == req.can_edit

\* use_team_code_names(self.tournament, admin=True, user=self.request.user)
use_team_code_names(req) == req.use_code_names

int(b) == IF b THEN 1 ELSE 0

\* a variant of get_formset_factory_kwargs that does not ask for the permission
get_formset_factory_kwargs_open(req) == [extra |-> 10, can_delete |-> TRUE]

\* BaseAdjudicatorConflictsView.get_formset_factory_kwargs
get_formset_factory_kwargs(req) ==
    LET can_edit == has_permission(req)
    IN [extra |-> 10 * int(can_edit), can_delete |-> can_edit]

\* a variant of disable_fields that disables nothing
leave_fields(fs) == fs

\* the loop of BaseAdjudicatorConflictsView.get_formset: every field of
\* every form disabled
disable_fields(fs) ==
    [fs EXCEPT !.forms =
        [i \in 1..Len(fs.forms) |->
            [fs.forms[i] EXCEPT !.fields =
                [n \in DOMAIN fs.forms[i].fields |->
                    [fs.forms[i].fields[n] EXCEPT !.disabled = TRUE]]]]]

\* BaseAdjudicatorConflictsView.get_formset
BaseAdjudicatorConflictsView_get_formset(v, queryset, req) ==
    LET fs == ModelFormSetView_get_formset(v, get_formset_factory_kwargs(req),
                                           queryset, req)
    IN IF ~has_permission(req) THEN disable_fields(fs) ELSE fs

\* form.fields[n].queryset = queryset
assign_queryset(form, n, queryset) ==
    [form EXCEPT !.fields[n] = set_queryset(@, queryset)]

\* form.fields[n].use_code_names = use_code_names
assign_use_code_names(form, n, use_code_names) ==
    [form EXCEPT !.fields[n] = setattr(@, "use_code_names", use_code_names)]

\* AdjudicatorTeamConflictsView.get_formset: a formset for each order the
\* database may return the adjudicators and the teams in
AdjudicatorTeam_get_formset(t, queryset, req) ==
    LET fs == BaseAdjudicatorConflictsView_get_formset(
                    "AdjudicatorTeamConflictsView", queryset, req)
        use_code_names == use_team_code_names(req)
    IN {[fs EXCEPT !.forms = [i \in 1..Len(fs.forms) |->
            assign_use_code_names(
                assign_queryset(assign_queryset(fs.forms[i], "adjudicator", all_adjs),
                                "team", all_teams),
                "team", use_code_names)]] :
          all_adjs \in order_by(adjudicator_set(t), [a \in Adjudicator |-> name(a)]),
          all_teams \in order_by(team_set(t),
                                 [x \in Team |-> IF use_code_names THEN code_name(x)
                                                 ELSE short_name(x)])}

\* AdjudicatorAdjudicatorConflictsView.get_formset
AdjudicatorAdjudicator_get_formset(t, queryset, req) ==
    LET fs == BaseAdjudicatorConflictsView_get_formset(
                    "AdjudicatorAdjudicatorConflictsView", queryset, req)
    IN {[fs EXCEPT !.forms = [i \in 1..Len(fs.forms) |->
            assign_queryset(assign_queryset(fs.forms[i], "adjudicator1", all_adjs),
                            "adjudicator2", all_adjs)]] :
          all_adjs \in order_by(adjudicator_set(t), [a \in Adjudicator |-> name(a)])}

\* AdjudicatorInstitutionConflictsView.get_formset
AdjudicatorInstitution_get_formset(t, queryset, req) ==
    LET fs == BaseAdjudicatorConflictsView_get_formset(
                    "AdjudicatorInstitutionConflictsView", queryset, req)
        insts == objects_all("Institution")
    IN {[fs EXCEPT !.forms = [i \in 1..Len(fs.forms) |->
            assign_queryset(assign_queryset(fs.forms[i], "adjudicator", all_adjs),
                            "institution", insts)]] :
          all_adjs \in order_by(adjudicator_set(t), [a \in Adjudicator |-> name(a)])}

\* a variant of TeamInstitution_all_teams: the first of its two assignments
all_teams_by_preference(t, use_code_names) ==
    order_by(team_set(t), [x \in Team |-> IF use_code_names THEN code_name(x)
                                          ELSE short_name(x)])

\* all_teams of TeamInstitutionConflictsView.get_formset: assigned twice,
\* and the second assignment, by short_name, is the one that stands
TeamInstitution_all_teams(t, use_code_names) ==
    order_by(team_set(t), [x \in Team |-> short_name(x)])

\* TeamInstitutionConflictsView.get_formset
TeamInstitution_get_formset(t, queryset, req) ==
    LET fs == BaseAdjudicatorConflictsView_get_formset(
                    "TeamInstitutionConflictsView", queryset, req)
        use_code_names == use_team_code_names(req)
        insts == objects_all("Institution")
    IN {[fs EXCEPT !.forms = [i \in 1..Len(fs.forms) |->
            assign_queryset(
                assign_use_code_names(assign_queryset(fs.forms[i], "team", all_teams),
                                      "team", use_code_names),
                "institution", insts)]] :
          all_teams \in TeamInstitution_all_teams(t, use_code_names)}

\* self.get_formset() of the view class v
get_formset(v, t, queryset, req) ==
    CASE v = "AdjudicatorTeamConflictsView" -> AdjudicatorTeam_get_formset(t, queryset, req)
      [] v = "AdjudicatorAdjudicatorConflictsView" ->
            AdjudicatorAdjudicator_get_formset(t, queryset, req)
      [] v = "AdjudicatorInstitutionConflictsView" ->
            AdjudicatorInstitution_get_formset(t, queryset, req)
      [] v = "TeamInstitutionConflictsView" -> TeamInstitution_get_formset(t, queryset, req)

\* AdjudicatorTeamConflictsView.get_formset_queryset: the rows in each order
\* the database may return them in
AdjudicatorTeam_get_formset_queryset(t, table) ==
    order_by({r \in table : tournament_of("Adjudicator", r.adjudicator) = t},
             [r \in table |-> name(r.adjudicator)])

\* AdjudicatorAdjudicatorConflictsView.get_formset_queryset
AdjudicatorAdjudicator_get_formset_queryset(t, table) ==
    order_by({r \in table : tournament_of("Adjudicator", r.adjudicator1) = t},
             [r \in table |-> name(r.adjudicator1)])

\* AdjudicatorInstitutionConflictsView.get_formset_queryset
AdjudicatorInstitution_get_formset_queryset(t, table) ==
    order_by({r \in table : tournament_of("Adjudicator", r.adjudicator) = t},
             [r \in table |-> name(r.adjudicator)])

\* TeamInstitutionConflictsView.get_formset_queryset
TeamInstitution_get_formset_queryset(t, table) ==
    order_by({r \in table : tournament_of("Team", r.team) = t},
             [r \in table |-> short_name(r.team)])

\* self.get_formset_queryset() of the view class v
get_formset_queryset(v, t, table) ==
    CASE v = "AdjudicatorTeamConflictsView" -> AdjudicatorTeam_get_formset_queryset(t, table)
      [] v = "AdjudicatorAdjudicatorConflictsView" ->
            AdjudicatorAdjudicator_get_formset_queryset(t, table)
      [] v = "AdjudicatorInstitutionConflictsView" ->
            AdjudicatorInstitution_get_formset_queryset(t, table)
      [] v = "TeamInstitutionConflictsView" -> TeamInstitution_get_formset_queryset(t, table)

\* BaseModelFormSet.get_queryset of a formset that was given no queryset:
\* every row of the model, in the order of the primary keys
default_queryset(table) ==
    CHOOSE s \in Orderings(table) : \A i, j \in 1..Len(s) : i < j => s[i].id < s[j].id

\* the querysets the formset of a request may be over, one for each order
\* the database may return the rows in: get_formset_queryset() on a GET; on
\* a POST that too when the base view hands it to the bound formset
\* (queryset_on_post), and the model's default queryset when it does not
formset_queryset(v, t, req, table) ==
    IF req.method = "POST" /\ ~queryset_on_post
    THEN {default_queryset(table)}
    ELSE get_formset_queryset(v, t, table)

----------------------------------------------------------------------------
(* Messages and responses *)

\* ngettext under the plural rule of the source language
ngettext(singular, plural, n) == IF n = 1 THEN singular ELSE plural

\* messages.success(request, text % {'count': count}); a text without a
\* count is given the count 0
success(text, count) == [level |-> "success", text |-> text, count |-> count]

\* AdjudicatorTeamConflictsView.add_message: the messages it adds, in order
AdjudicatorTeam_add_message(nsaved, ndeleted) ==
    (IF nsaved > 0
     THEN <<success(ngettext("Saved %(count)d adjudicator-team conflict.",
                             "Saved %(count)d adjudicator-team conflicts.", nsaved), nsaved)>>
     ELSE <<>>) \o
    (IF ndeleted > 0
     THEN <<success(ngettext("Deleted %(count)d adjudicator-team conflict.",
                             "Deleted %(count)d adjudicator-team conflicts.", ndeleted), ndeleted)>>
     ELSE <<>>) \o
    (IF nsaved = 0 /\ ndeleted = 0
     THEN <<success("No changes were made to adjudicator-team conflicts.", 0)>>
     ELSE <<>>)

\* AdjudicatorAdjudicatorConflictsView.add_message: the messages it adds, in order
AdjudicatorAdjudicator_add_message(nsaved, ndeleted) ==
    (IF nsaved > 0
     THEN <<success(ngettext("Saved %(count)d adjudicator-adjudicator conflict.",
                             "Saved %(count)d adjudicator-adjudicator conflicts.", nsaved), nsaved)>>
     ELSE <<>>) \o
    (IF ndeleted > 0
     THEN <<success(ngettext("Deleted %(count)d adjudicator-adjudicator conflict.",
                             "Deleted %(count)d adjudicator-adjudicator conflicts.", ndeleted), ndeleted)>>
     ELSE <<>>) \o
    (IF nsaved = 0 /\ ndeleted = 0
     THEN <<success("No changes were made to adjudicator-adjudicator conflicts.", 0)>>
     ELSE <<>>)

\* AdjudicatorInstitutionConflictsView.add_message: the messages it adds, in order
AdjudicatorInstitution_add_message(nsaved, ndeleted) ==
    (IF nsaved > 0
     THEN <<success(ngettext("Saved %(count)d adjudicator-institution conflict.",
                             "Saved %(count)d adjudicator-institution conflicts.", nsaved), nsaved)>>
     ELSE <<>>) \o
    (IF ndeleted > 0
     THEN <<success(ngettext("Deleted %(count)d adjudicator-institution conflict.",
                             "Deleted %(count)d adjudicator-institution conflicts.", ndeleted), ndeleted)>>
     ELSE <<>>) \o
    (IF nsaved = 0 /\ ndeleted = 0
     THEN <<success("No changes were made to adjudicator-institution conflicts.", 0)>>
     ELSE <<>>)

\* TeamInstitutionConflictsView.add_message: the messages it adds, in order
TeamInstitution_add_message(nsaved, ndeleted) ==
    (IF nsaved > 0
     THEN <<success(ngettext("Saved %(count)d team-institution conflict.",
                             "Saved %(count)d team-institution conflicts.", nsaved), nsaved)>>
     ELSE <<>>) \o
    (IF ndeleted > 0
     THEN <<success(ngettext("Deleted %(count)d team-institution conflict.",
                             "Deleted %(count)d team-institution conflicts.", ndeleted), ndeleted)>>
     ELSE <<>>) \o
    (IF nsaved = 0 /\ ndeleted = 0
     THEN <<success("No changes were made to team-institution conflicts.", 0)>>
     ELSE <<>>)

\* self.add_message(nsaved, ndeleted) of the view class v
add_message(v, nsaved, ndeleted) ==
    CASE v = "AdjudicatorTeamConflictsView" -> AdjudicatorTeam_add_message(nsaved, ndeleted)
      [] v = "AdjudicatorAdjudicatorConflictsView" ->
            AdjudicatorAdjudicator_add_message(nsaved, ndeleted)
      [] v = "AdjudicatorInstitutionConflictsView" ->
            AdjudicatorInstitution_add_message(nsaved, ndeleted)
      [] v = "TeamInstitutionConflictsView" -> TeamInstitution_add_message(nsaved, ndeleted)

\* reverse_tournament(name, tournament): the URL of a view of a tournament
reverse_tournament(to, t) == <<to, t>>

\* BaseAdjudicatorConflictsView.get_success_url
get_success_url(t) == reverse_tournament("importer-simple-index", t)

\* redirect_tournament(name, tournament): a redirect to that URL
redirect_tournament(to, t) == reverse_tournament(to, t)

\* a response: a redirect (302) to a URL, with the messages the request
\* added, or a page (200) that renders the formset
HttpResponseRedirect(url, msgs) == [status |-> 302, url |-> url, messages |-> msgs]
render_to_response(fs) == [status |-> 200, url |-> <<>>, messages |-> <<>>]
\* the response to a request whose handler raised: a server error
HttpResponseServerError == [status |-> 500, url |-> <<>>, messages |-> <<>>]

\* ModelFormSetView.formset_valid: self.instances = formset.save(), and a
\* redirect to get_success_url()
ModelFormSetView_formset_valid(t, saved) ==
    [db |-> saved.db, nextpk |-> saved.nextpk, instances |-> saved.instances,
     result |-> get_success_url(t)]

\* a variant of formset_valid that does not look at add_more
formset_valid_plain(v, t, fs, req, table, pk) ==
    LET super == ModelFormSetView_formset_valid(t, formset_save(v, fs, table, pk))
        saved == formset_save(v, fs, table, pk)
    IN [db |-> super.db, nextpk |-> super.nextpk, formset |-> fs,
        response |->
            IF saved.raised THEN HttpResponseServerError
            ELSE HttpResponseRedirect(super.result,
                    add_message(v, Len(super.instances), Len(saved.deleted_objects)))]

\* a variant of formset_valid whose save stops short of the database
formset_valid_uncommitted(v, t, fs, req, table, pk) ==
    LET super == ModelFormSetView_formset_valid(t, formset_save(v, fs, table, pk))
        saved == formset_save(v, fs, table, pk)
    IN [db |-> table, nextpk |-> pk, formset |-> fs,
        response |->
            IF saved.raised THEN HttpResponseServerError
            ELSE HttpResponseRedirect(
                    IF req.add_more THEN redirect_tournament(same_view(v), t)
                    ELSE super.result,
                    add_message(v, Len(super.instances), Len(saved.deleted_objects)))]

\* BaseAdjudicatorConflictsView.formset_valid: the table and the next primary
\* key after it, and the response.  An exception that super().formset_valid
\* raises is not caught: no message is added and the request fails.
formset_valid(v, t, fs, req, table, pk) ==
    LET saved == formset_save(v, fs, table, pk)
        super == ModelFormSetView_formset_valid(t, saved)
        result == super.result
        nsaved == Len(super.instances)
        ndeleted == Len(saved.deleted_objects)
        msgs == add_message(v, nsaved, ndeleted)
    IN [db |-> super.db, nextpk |-> super.nextpk, formset |-> fs,
        response |->
            IF saved.raised THEN HttpResponseServerError
            ELSE HttpResponseRedirect(
                    IF req.add_more THEN redirect_tournament(same_view(v), t)
                    ELSE result, msgs)]

\* ModelFormSetView.formset_invalid: nothing is saved and the formset is
\* rendered again, with its errors
formset_invalid(fs, table, pk) ==
    [db |-> table, nextpk |-> pk, formset |-> fs, response |-> render_to_response(fs)]

\* what is left of a handler's writes: all of them, or, when the handler
\* raised and the request ran in a transaction (ATOMIC_REQUESTS), none
committed(out, table, pk) ==
    IF out.response.status = 500
    THEN {out, [out EXCEPT !.db = table, !.nextpk = pk]}
    ELSE {out}

\* a variant of post that does not ask whether the formset is valid
post_unchecked(v, t, req, table, pk) ==
    UNION {committed(formset_valid(v, t, fs, req, table, pk), table, pk) :
        fs \in UNION {get_formset(v, t, queryset, req) :
                        queryset \in formset_queryset(v, t, req, table)}}

\* ModelFormSetView.post: each outcome the handler may have
post(v, t, req, table, pk) ==
    UNION {committed(IF is_valid(v, fs, table)
                     THEN formset_valid(v, t, fs, req, table, pk)
                     ELSE formset_invalid(fs, table, pk), table, pk) :
        fs \in UNION {get_formset(v, t, queryset, req) :
                        queryset \in formset_queryset(v, t, req, table)}}

\* ModelFormSetView.get: each page the handler may render
get(v, t, req, table, pk) ==
    {[db |-> table, nextpk |-> pk, formset |-> fs, response |-> render_to_response(fs)] :
        fs \in UNION {get_formset(v, t, queryset, req) :
                        queryset \in formset_queryset(v, t, req, table)}}

----------------------------------------------------------------------------
(* Requests *)

NoRequest == [method |-> "none", user |-> 0, can_edit |-> FALSE, use_code_names |-> FALSE,
              add_more |-> FALSE, POST |-> <<>>]
NoFormset == [can_delete |-> FALSE, extra |-> 0, is_bound |-> FALSE, queryset |-> <<>>,
              forms |-> <<>>]
NoResponse == [status |-> 0, url |-> <<>>, messages |-> <<>>]

\* the table before the first request: a conflict of each tournament
InitialRows(v) ==
    {Row(v, 1, 1, 1),
     Row(v, 2, 3, IF related_model(F2(v)) = "Institution" THEN 2 ELSE 3)}

\* the pairs of objects a client submits: the pair of the first row, two
\* other pairs of objects of the first tournament, one with the first and
\* one with the second object not of the first tournament
Pairs(v) == {<<1, 1>>, <<1, 2>>, <<2, 2>>, <<3, 1>>, <<2, 3>>}

\* the forms a client may submit when pk is the next primary key: no id or
\* the id of a row the table holds or has held, a pair of objects or the
\* DELETE box ticked
Forms(v, pk) ==
    {FormData(v, id, p[1], p[2], FALSE) : id \in 0..(pk - 1), p \in Pairs(v)}
    \cup {FormData(v, id, 1, 1, TRUE) : id \in 0..(pk - 1)}

\* the forms of a payload that would create a row
extra_forms(payload) == {i \in 1..Len(payload) : payload[i].id = None}

\* the POST data a client may send: at most MaxForms forms, in any order
\* and with any id in any number of them, but the initial forms (those
\* with an id) before the extra ones, as the formset numbers them, and no
\* more new rows than primary keys left
Payloads(v, pk) ==
    {q \in UNION {[1..n -> Forms(v, pk)] : n \in 0..MaxForms} :
        /\ \A i, j \in 1..Len(q) : i < j /\ q[i].id = None => q[j].id = None
        /\ pk + Cardinality(extra_forms(q)) <= MaxPk + 1}

GetRequests ==
    {[method |-> "GET", user |-> 0, can_edit |-> c, use_code_names |-> u,
      add_more |-> FALSE, POST |-> <<>>] : c \in BOOLEAN, u \in BOOLEAN}

\* the POSTs of a user who has (can_edit) or lacks the edit permission and
\* whose code-name preference is one of prefs, with and without the key
\* add_more
PostRequests(v, pk, can_edit, prefs) ==
    {[method |-> "POST", user |-> 0, can_edit |-> can_edit, use_code_names |-> u,
      add_more |-> a, POST |-> p] :
        u \in prefs, a \in BOOLEAN, p \in Payloads(v, pk)}

----------------------------------------------------------------------------
(* The view under requests *)

IdleField == Field("DedupModelChoiceField", "Team", <<>>)

Init ==
    /\ view \in Views
    /\ tournament \in Tournaments
    /\ queryset_on_post \in BOOLEAN
    /\ db = InitialRows(view)
    /\ nextpk = 3
    /\ pc = "idle"
    /\ request = NoRequest
    /\ formset = NoFormset
    /\ response = NoResponse
    /\ before = {}
    /\ loaded = <<>>
    /\ inflight = <<>>
    /\ log = <<>>
    /\ field = IdleField
    /\ iterations = 0
    /\ yielded = <<>>

\* the view handles the request req, with the outcome out
Handle(req, out) ==
    /\ request' = req
    /\ formset' = out.formset
    /\ response' = out.response
    /\ db' = out.db
    /\ nextpk' = out.nextpk
    /\ before' = db
    /\ pc' = "responded"

\* the view handles a GET
Get ==
    /\ pc = "idle"
    /\ \E req \in GetRequests :
        \E out \in get(view, tournament, req, db, nextpk) : Handle(req, out)
    /\ UNCHANGED <<view, tournament, queryset_on_post, loaded, inflight, log, field, iterations, yielded>>

\* the view handles the POST of a user who holds the edit permission
Post ==
    /\ pc = "idle"
    /\ \E req \in PostRequests(view, nextpk, TRUE, BOOLEAN) :
        \E out \in post(view, tournament, req, db, nextpk) : Handle(req, out)
    /\ UNCHANGED <<view, tournament, queryset_on_post, loaded, inflight, log, field, iterations, yielded>>

\* the response is delivered
Respond ==
    /\ pc = "responded"
    /\ pc' = "idle"
    /\ request' = NoRequest
    /\ formset' = NoFormset
    /\ response' = NoResponse
    /\ before' = {}
    /\ UNCHANGED <<view, tournament, queryset_on_post, db, nextpk, loaded, inflight, log, field, iterations, yielded>>

Next == Get \/ Post \/ Respond

Spec == Init /\ [][Next]_vars

----------------------------------------------------------------------------
(* The view under the POSTs of users without the edit permission *)

\* tables the view may hold when such a request arrives: the first one, one
\* with a second conflict of the first tournament, and one that has lost the
\* first conflict
DeniedTables(v) ==
    {InitialRows(v),
     InitialRows(v) \cup {Row(v, 3, 2, 2)},
     (InitialRows(v) \ {Row(v, 1, 1, 1)}) \cup {Row(v, 3, 2, 2)}}

InitDenied ==
    /\ view \in Views
    /\ tournament \in Tournaments
    /\ queryset_on_post \in BOOLEAN
    /\ db \in DeniedTables(view)
    /\ nextpk = Max({r.id : r \in db}) + 1
    /\ pc = "idle"
    /\ request = NoRequest
    /\ formset = NoFormset
    /\ response = NoResponse
    /\ before = {}
    /\ loaded = <<>>
    /\ inflight = <<>>
    /\ log = <<>>
    /\ field = IdleField
    /\ iterations = 0
    /\ yielded = <<>>

\* the view handles the POST of a user who lacks the edit permission; the
\* code-name preference, which decides the labels and the order of the team
\* options and nothing of what is saved, is varied in Spec and is off here
PostDenied ==
    /\ pc = "idle"
    /\ \E req \in PostRequests(view, nextpk, FALSE, {FALSE}) :
        \E out \in post(view, tournament, req, db, nextpk) : Handle(req, out)
    /\ UNCHANGED <<view, tournament, queryset_on_post, loaded, inflight, log, field, iterations, yielded>>

NextDenied == PostDenied \/ Respond

SpecDenied == InitDenied /\ [][NextDenied]_vars

----------------------------------------------------------------------------
(* One choice field, its options iterated again and again: yielded holds   *)
(* what the last iteration yielded, while pc = "iterated"                  *)

\* the querysets a field may be given: at most MaxQs rows, each once
Querysets(model) ==
    {q \in UNION {[1..n -> objects(model)] : n \in 0..MaxQs} :
        \A i, j \in 1..Len(q) : q[i] = q[j] => i = j}

\* the choice fields of the forms a view hands to its template, with or
\* without an empty_label: a DedupModelChoiceField over adjudicators, and a
\* TeamChoiceField over teams, which get_formset has assigned use_code_names
ChoiceFields ==
    {[Field("DedupModelChoiceField", "Adjudicator", q) EXCEPT !.empty_label = e] :
        q \in Querysets("Adjudicator"), e \in {NoLabel, EmptyLabel}}
    \cup {setattr([Field("TeamChoiceField", "Team", q) EXCEPT !.empty_label = e],
                  "use_code_names", u) :
            q \in Querysets("Team"), e \in {NoLabel, EmptyLabel}, u \in BOOLEAN}

InitIter ==
    /\ view = "AdjudicatorTeamConflictsView"
    /\ tournament = 1
    /\ queryset_on_post = TRUE
    /\ db = {}
    /\ nextpk = 1
    /\ pc = "idle"
    /\ request = NoRequest
    /\ formset = NoFormset
    /\ response = NoResponse
    /\ before = {}
    /\ loaded = <<>>
    /\ inflight = <<>>
    /\ log = <<>>
    /\ field \in ChoiceFields
    /\ iterations = 0
    /\ yielded = <<>>

\* list(field.choices): one more iteration over the field's options
Iterate ==
    /\ iterations < MaxIter
    /\ yielded' = DedupModelChoiceIterator(field)
    /\ iterations' = iterations + 1
    /\ pc' = "iterated"
    /\ UNCHANGED <<view, tournament, queryset_on_post, db, nextpk, request, formset, response, before,
                   loaded, inflight, log, field>>

\* field.queryset = queryset
SetQueryset ==
    /\ \E q \in Querysets(field.model) :
        /\ q # field.queryset
        /\ field' = set_queryset(field, q)
    /\ yielded' = <<>>
    /\ pc' = "idle"
    /\ UNCHANGED <<view, tournament, queryset_on_post, db, nextpk, request, formset, response, before,
                   loaded, inflight, log, iterations>>

NextIter == Iterate \/ SetQueryset

SpecIter == InitIter /\ [][NextIter]_vars

----------------------------------------------------------------------------
(* Two administrators.  Each loads the page (a GET) and later submits it   *)
(* with one of its rows edited (a POST); both hold the edit permission.    *)
(* A POST is handled in three steps, each a separate access to the table,  *)
(* with no lock and no check of a version between them: the formset is     *)
(* built from the rows the queryset reads (Submit), it is validated        *)
(* (Validate), and it is saved (Save).  The steps of two requests may      *)
(* interleave.  log lists the submissions in the order they were answered: *)
(* who submitted, the row and the value they wrote, the value the page     *)
(* showed them (seen) and the value the request read (found), the status   *)
(* and the messages of the response, and the row's value after it.         *)

Users == {1, 2}

NoPage == [at |-> "none", forms |-> <<>>]

\* no request of the administrator is being handled
NoPost == [at |-> "none"]

\* the forms of the page a browser shows: the data of each form
page(fs) == [at |-> "page", forms |-> [i \in 1..Len(fs.forms) |-> fs.forms[i].data]]

\* the pair of foreign keys of the row id in a table, <<>> when it is gone
value_of(v, table, id) ==
    IF \E r \in table : r.id = id
    THEN LET r == CHOOSE r \in table : r.id = id IN <<r[F1(v)], r[F2(v)]>>
    ELSE <<>>

\* the values an administrator may type into a row: the value of the first
\* row, two other pairs of objects of the first tournament, and one with
\* an object of the second
EditPairs(v) == {<<1, 1>>, <<1, 2>>, <<2, 2>>, <<3, 1>>}

\* the submissions answered or being handled
Submissions == Len(log) + Cardinality({u \in Users : inflight[u].at # "none"})

InitConc ==
    /\ view \in Views
    /\ tournament \in Tournaments
    /\ queryset_on_post \in BOOLEAN
    /\ db = InitialRows(view)
    /\ nextpk = 3
    /\ pc = "idle"
    /\ request = NoRequest
    /\ formset = NoFormset
    /\ response = NoResponse
    /\ before = {}
    /\ loaded = [u \in Users |-> NoPage]
    /\ inflight = [u \in Users |-> NoPost]
    /\ log = <<>>
    /\ field = IdleField
    /\ iterations = 0
    /\ yielded = <<>>

\* administrator u loads the page
Load(u) ==
    /\ Submissions < MaxSubmits
    /\ \E out \in get(view, tournament,
                      [method |-> "GET", user |-> u, can_edit |-> TRUE,
                       use_code_names |-> FALSE, add_more |-> FALSE, POST |-> <<>>],
                      db, nextpk) :
        loaded' = [loaded EXCEPT ![u] = page(out.formset)]
    /\ UNCHANGED <<view, tournament, queryset_on_post, db, nextpk, pc, request, formset, response, before,
                   inflight, log, field, iterations, yielded>>

\* administrator u submits the page they loaded, with row k edited to p:
\* self.get_formset() builds the formset from the rows the table holds now
Submit(u) ==
    /\ Submissions < MaxSubmits
    /\ loaded[u].at = "page"
    /\ inflight[u].at = "none"
    /\ \E k \in 1..Len(loaded[u].forms), p \in EditPairs(view) :
        /\ loaded[u].forms[k].id # None
        /\ LET shown == loaded[u].forms[k]
               payload == [loaded[u].forms EXCEPT
                              ![k] = FormData(view, shown.id, p[1], p[2], FALSE)]
               req == [method |-> "POST", user |-> u, can_edit |-> TRUE,
                       use_code_names |-> FALSE, add_more |-> FALSE, POST |-> payload]
           IN \E queryset \in formset_queryset(view, tournament, req, db) :
                \E fs \in get_formset(view, tournament, queryset, req) :
                    inflight' = [inflight EXCEPT ![u] =
                        [at |-> "built", request |-> req, formset |-> fs,
                         id |-> shown.id, value |-> p,
                         seen |-> <<shown[F1(view)], shown[F2(view)]>>,
                         found |-> value_of(view, db, shown.id)]]
    /\ loaded' = [loaded EXCEPT ![u] = NoPage]
    /\ UNCHANGED <<view, tournament, queryset_on_post, db, nextpk, pc, request, formset, response, before,
                   log, field, iterations, yielded>>

\* the entry of the log for the request of u, answered with response
answered(u, resp, table) ==
    [user |-> u, id |-> inflight[u].id, value |-> inflight[u].value,
     seen |-> inflight[u].seen, found |-> inflight[u].found,
     status |-> resp.status, messages |-> resp.messages,
     after |-> value_of(view, table, inflight[u].id)]

\* formset.is_valid() for the request of u, against the table as it is now;
\* a formset that is not valid is rendered again and the request is answered
Validate(u) ==
    /\ inflight[u].at = "built"
    /\ IF is_valid(view, inflight[u].formset, db)
       THEN /\ inflight' = [inflight EXCEPT ![u].at = "valid"]
            /\ log' = log
       ELSE /\ log' = Append(log, answered(u,
                        formset_invalid(inflight[u].formset, db, nextpk).response, db))
            /\ inflight' = [inflight EXCEPT ![u] = NoPost]
    /\ UNCHANGED <<view, tournament, queryset_on_post, db, nextpk, pc, request, formset, response, before,
                   loaded, field, iterations, yielded>>

\* self.formset_valid(formset) for the request of u: the formset built from
\* what the request read is saved to the table as it is now
Save(u) ==
    /\ inflight[u].at = "valid"
    /\ \E out \in committed(formset_valid(view, tournament, inflight[u].formset,
                                          inflight[u].request, db, nextpk), db, nextpk) :
        /\ db' = out.db
        /\ nextpk' = out.nextpk
        /\ log' = Append(log, answered(u, out.response, out.db))
    /\ inflight' = [inflight EXCEPT ![u] = NoPost]
    /\ UNCHANGED <<view, tournament, queryset_on_post, pc, request, formset, response, before,
                   loaded, field, iterations, yielded>>

NextConc == \E u \in Users : Load(u) \/ Submit(u) \/ Validate(u) \/ Save(u)

SpecConc == InitConc /\ [][NextConc]_vars

----------------------------------------------------------------------------
(* Properties.  A request has been handled, and its response is at hand,   *)
(* while pc = "responded".                                                 *)

HandledPost == pc = "responded" /\ request.method = "POST"
HandledGet == pc = "responded" /\ request.method = "GET"

\* whether an object of a model belongs to tournament t; an institution
\* belongs to no tournament and is open to all
belongs_to(model, obj, t) ==
    model = "Institution" \/ tournament_of(model, obj) = t

\* the rows of a table that are scoped to tournament t
rows_of(v, t, table) == {r \in table : row_tournament(v, r) = t}

\* the stored rows a submission created or updated, and those it deleted
RowsSaved == db \ before
RowsDeleted == {r \in before : \A s \in db : s.id # r.id}

\* C1: in each of the four views, a POST of a user who lacks the edit
\* permission leaves the stored conflict rows exactly as they were before
\* the request, whatever the payload holds.
C1_DeniedPostLeavesRows ==
    HandledPost /\ ~request.can_edit => db = before

\* a denied POST that carries changed values for a stored row of the
\* tournament and an extra row, accepted with the table as it was
C1_Witness ==
    /\ HandledPost /\ ~request.can_edit /\ response.status = 302
    /\ \E i, j \in 1..Len(request.POST) :
        /\ \E r \in rows_of(view, tournament, before) :
            /\ r.id = request.POST[i].id
            /\ <<r[F1(view)], r[F2(view)]>> #
                    <<request.POST[i][F1(view)], request.POST[i][F2(view)]>>
        /\ request.POST[j].id = None
    /\ db = before

\* the texts of a view's messages
Texts(v) ==
    CASE v = "AdjudicatorTeamConflictsView" ->
            [saved1 |-> "Saved %(count)d adjudicator-team conflict.",
             saved |-> "Saved %(count)d adjudicator-team conflicts.",
             deleted1 |-> "Deleted %(count)d adjudicator-team conflict.",
             deleted |-> "Deleted %(count)d adjudicator-team conflicts.",
             none |-> "No changes were made to adjudicator-team conflicts."]
      [] v = "AdjudicatorAdjudicatorConflictsView" ->
            [saved1 |-> "Saved %(count)d adjudicator-adjudicator conflict.",
             saved |-> "Saved %(count)d adjudicator-adjudicator conflicts.",
             deleted1 |-> "Deleted %(count)d adjudicator-adjudicator conflict.",
             deleted |-> "Deleted %(count)d adjudicator-adjudicator conflicts.",
             none |-> "No changes were made to adjudicator-adjudicator conflicts."]
      [] v = "AdjudicatorInstitutionConflictsView" ->
            [saved1 |-> "Saved %(count)d adjudicator-institution conflict.",
             saved |-> "Saved %(count)d adjudicator-institution conflicts.",
             deleted1 |-> "Deleted %(count)d adjudicator-institution conflict.",
             deleted |-> "Deleted %(count)d adjudicator-institution conflicts.",
             none |-> "No changes were made to adjudicator-institution conflicts."]
      [] v = "TeamInstitutionConflictsView" ->
            [saved1 |-> "Saved %(count)d team-institution conflict.",
             saved |-> "Saved %(count)d team-institution conflicts.",
             deleted1 |-> "Deleted %(count)d team-institution conflict.",
             deleted |-> "Deleted %(count)d team-institution conflicts.",
             none |-> "No changes were made to team-institution conflicts."]

\* the messages of the response whose text is one of texts
MessagesOf(texts) == {i \in 1..Len(response.messages) : response.messages[i].text \in texts}

\* C2: after a valid submission, with or without add_more, the "No changes"
\* message is emitted exactly when no row was saved and none deleted; a
\* "Saved" message exactly when rows were saved and a "Deleted" message
\* exactly when rows were deleted, each with the number of rows the
\* submission actually created or updated, or deleted, and in the singular
\* form exactly when that number is 1.
C2_MessagesMatchRows ==
    HandledPost /\ response.status = 302 =>
        LET N == Cardinality(RowsSaved)
            M == Cardinality(RowsDeleted)
            T == Texts(view)
            saved == MessagesOf({T.saved1, T.saved})
            deleted == MessagesOf({T.deleted1, T.deleted})
            none == MessagesOf({T.none})
        IN /\ saved \cup deleted \cup none = 1..Len(response.messages)
           /\ Cardinality(none) = (IF N = 0 /\ M = 0 THEN 1 ELSE 0)
           /\ Cardinality(saved) = (IF N > 0 THEN 1 ELSE 0)
           /\ Cardinality(deleted) = (IF M > 0 THEN 1 ELSE 0)
           /\ \A i \in saved :
                /\ response.messages[i].count = N
                /\ response.messages[i].text = (IF N = 1 THEN T.saved1 ELSE T.saved)
           /\ \A i \in deleted :
                /\ response.messages[i].count = M
                /\ response.messages[i].text = (IF M = 1 THEN T.deleted1 ELSE T.deleted)

\* whether the database refused a write of the save of the formset at hand
\* (IntegrityError): the save of a formset that validates can still be
\* refused, when two of its forms name one row
SaveRefused == formset_save(view, formset, before, nextpk).raised

\* the URL a valid submission is to be redirected to
RedirectTarget ==
    IF request.add_more THEN <<same_view(view), tournament>>
    ELSE <<"importer-simple-index", tournament>>

\* C3, as the claim states it: after a valid submission, the response
\* redirects to the view's own URL for the tournament (same_view) when the
\* POST data holds the key add_more, and to the tournament's
\* 'importer-simple-index' URL when not.
C3_ValidSubmissionRedirects ==
    HandledPost /\ is_valid(view, formset, before) =>
        response.status = 302 /\ response.url = RedirectTarget

\* C3, amended: after a valid submission whose save the database does not
\* refuse, the response redirects to the view's own URL for the tournament
\* (same_view) when the POST data holds the key add_more, and to the
\* tournament's 'importer-simple-index' URL when not; a valid submission
\* whose save the database refuses is answered with a server error, without
\* a redirect and without a message.
C3_RedirectTarget ==
    HandledPost /\ is_valid(view, formset, before) =>
        IF SaveRefused
        THEN response.status = 500 /\ response.url = <<>> /\ response.messages = <<>>
        ELSE response.status = 302 /\ response.url = RedirectTarget

\* a valid submission with add_more that saved a row and was sent back to
\* the view
C3_Witness ==
    /\ HandledPost /\ is_valid(view, formset, before) /\ ~SaveRefused
    /\ request.add_more
    /\ RowsSaved # {}
    /\ response.status = 302 /\ response.url[1] = same_view(view)

\* the places of the blank option ('', label) among what was yielded
Blanks == {i \in 1..Len(yielded) : yielded[i][1] = None}

\* C4: an iteration over the options of a field whose empty_label is set
\* yields exactly one blank option ('', empty_label), first, and then one
\* option for each row of the field's current queryset, however often the
\* options were iterated before; with empty_label None it yields no blank
\* option.
C4_OneBlankOption ==
    pc = "iterated" =>
        IF field.empty_label # NoLabel
        THEN /\ Blanks = {1}
             /\ yielded[1] = <<None, field.empty_label>>
             /\ Len(yielded) = Len(field.queryset) + 1
             /\ \A i \in 1..Len(field.queryset) : yielded[i + 1][1] = field.queryset[i]
        ELSE /\ Blanks = {}
             /\ Len(yielded) = Len(field.queryset)
             /\ \A i \in 1..Len(field.queryset) : yielded[i][1] = field.queryset[i]

\* a second or later iteration over a field with an empty_label and two rows
C4_Witness ==
    /\ pc = "iterated" /\ iterations >= 2
    /\ field.empty_label # NoLabel
    /\ Len(field.queryset) = 2
    /\ Len(yielded) = 3 /\ Blanks = {1}

\* the team options of the forms of the formset at hand: (value, label)
TeamOptions ==
    UNION {IF "team" \in DOMAIN formset.forms[i].fields
           THEN {o \in Range(DedupModelChoiceIterator(formset.forms[i].fields.team)) :
                    o[1] # None}
           ELSE {} : i \in 1..Len(formset.forms)}

\* C5: in every form of the adjudicator-team and team-institution views the
\* label of each team option is the team's code_name when the code-name
\* preference is enabled for the requesting user and tournament, and the
\* team's short_name otherwise.
C5_TeamLabel ==
    pc = "responded" =>
        \A o \in TeamOptions :
            o[2] = (IF request.use_code_names THEN code_name(o[1]) ELSE short_name(o[1]))

\* a team-institution page rendered with code names
C5_Witness ==
    /\ pc = "responded" /\ view = "TeamInstitutionConflictsView"
    /\ request.use_code_names
    /\ \E o \in TeamOptions : o[2] = code_name(o[1]) /\ o[2] # short_name(o[1])

\* whether the sequence s is ascending under key, a function on its elements
Ascending(s, key) == \A i, j \in 1..Len(s) : i < j => key[s[i]] <= key[s[j]]

\* the row of the table as the request found it, by its id
row_before(id) == CHOOSE r \in before : r.id = id

\* the name a view's rows are to be ordered by
RowName(v, r) ==
    CASE v = "AdjudicatorTeamConflictsView" -> name(r.adjudicator)
      [] v = "AdjudicatorAdjudicatorConflictsView" -> name(r.adjudicator1)
      [] v = "AdjudicatorInstitutionConflictsView" -> name(r.adjudicator)
      [] v = "TeamInstitutionConflictsView" -> short_name(r.team)

\* that name, for the id of each row the request found
OrderName == [id \in {r.id : r \in before} |-> RowName(view, row_before(id))]

\* the rows of the formset at hand, in the order of its forms
PageRows ==
    LET initial == SelectSeq(formset.forms, LAMBDA form : form.is_initial)
    IN [i \in 1..Len(initial) |-> initial[i].instance]

BlankForms == {i \in 1..Len(formset.forms) : ~formset.forms[i].is_initial}

\* C7: for every request, when the user has the edit permission the formset
\* offers exactly ten extra blank rows, row deletion is enabled and no
\* field is disabled; when the user lacks it the formset offers no extra
\* blank row, row deletion is not enabled and every field of every form is
\* disabled.
C7_PermissionGate ==
    pc = "responded" =>
        IF request.can_edit
        THEN /\ formset.extra = 10 /\ formset.can_delete
             /\ request.method = "GET" => Cardinality(BlankForms) = 10
             /\ \A i \in 1..Len(formset.forms) :
                    /\ "DELETE" \in DOMAIN formset.forms[i].fields
                    /\ \A n \in DOMAIN formset.forms[i].fields :
                            ~formset.forms[i].fields[n].disabled
        ELSE /\ formset.extra = 0 /\ ~formset.can_delete
             /\ request.method = "GET" => BlankForms = {}
             /\ \A i \in 1..Len(formset.forms) :
                    /\ "DELETE" \notin DOMAIN formset.forms[i].fields
                    /\ \A n \in DOMAIN formset.forms[i].fields :
                            formset.forms[i].fields[n].disabled

\* a page for a user without the permission: its rows, all disabled
C7_Witness ==
    /\ HandledGet /\ ~request.can_edit
    /\ Len(formset.forms) = 2
    /\ formset.forms[1].fields.id.disabled

\* C8: a POST whose formset fails validation persists nothing, adds none
\* of the messages, is not redirected and gets the form rendered again,
\* bound to what was submitted; rows are persisted and a redirect is
\* issued only for a POST that validates.
C8_InvalidPostPersistsNothing ==
    HandledPost =>
        /\ ~is_valid(view, formset, before) =>
                /\ db = before
                /\ response.messages = <<>>
                /\ response.status = 200 /\ response.url = <<>>
                /\ formset.is_bound
                /\ Len(formset.forms) = Len(request.POST)
        /\ (db # before \/ response.status = 302) => is_valid(view, formset, before)

\* a rejected POST in which one form is in error and another, that alone
\* would have been saved, is not
C8_Witness ==
    /\ HandledPost /\ response.status = 200
    /\ \E i, j \in 1..Len(formset.forms) :
        /\ ~should_delete_form(formset.forms[i])
        /\ ~form_is_valid(view, formset.forms[i], before)
        /\ has_changed(formset.forms[j])
        /\ ~should_delete_form(formset.forms[j])
        /\ form_is_valid(view, formset.forms[j], before)
    /\ db = before

\* whether a logged submission is a valid edit for the view of the
\* tournament: objects of the tournament, written to a row the table held
\* when the request read it (the tables of SpecConc hold no other row with
\* such a pair)
Admissible(e) ==
    /\ \A k \in 1..2 : belongs_to(related_model(fields(view)[k]), e.value[k], tournament)
    /\ e.found # <<>>

\* the logged submissions that are valid edits: they differ from what the
\* request read
Edits == {i \in 1..Len(log) : Admissible(log[i]) /\ log[i].value # log[i].found}

\* C10: when two administrators load the same page and both submit valid
\* edits to the same row, both submissions are accepted, neither rejected
\* nor reported as stale, each is written, and the row ends with the value
\* of the submission persisted last: no lock or version check keeps the
\* earlier edit from being overwritten.
C10_LastWriteWins ==
    /\ \A i \in 1..Len(log) : Admissible(log[i]) =>
            /\ log[i].status = 302
            /\ IF i \in Edits
               THEN /\ log[i].messages = <<success(Texts(view).saved1, 1)>>
                    /\ log[i].after = log[i].value
               ELSE log[i].messages = <<success(Texts(view).none, 0)>>
    /\ Edits # {} =>
            value_of(view, db, log[Max(Edits)].id) = log[Max(Edits)].value

\* both loaded the page and each submitted another value for the same row;
\* the second request read the row before the first was saved and was saved
\* after it: both were told "Saved 1" and the first edit is overwritten
C10_Witness ==
    /\ Len(log) = 2
    /\ log[1].user # log[2].user /\ log[1].id = log[2].id
    /\ log[1].value # log[2].value
    /\ log[1].seen = log[2].seen
    /\ log[1].found = log[1].seen /\ log[2].found = log[2].seen
    /\ log[1].value # log[1].found /\ log[2].value # log[2].found
    /\ log[1].status = 302 /\ log[2].status = 302
    /\ log[1].after = log[1].value
    /\ value_of(view, db, log[2].id) = log[2].value

====
